---- MODULE Spec2Model ----
(***************************************************************************)
(* A model of the cash-register change maker: the amount parser and line   *)
(* validator (src/parse.rs), the two change strategies                     *)
(* (src/strategy/greedy.rs, src/strategy/random.rs), the dispatch rule     *)
(* (src/rules.rs) and the command-line loop (src/main.rs).                 *)
(***************************************************************************)
EXTENDS Integers, Sequences, FiniteSets, TLC

VARIABLES
    \* ---- one ChangeStrategy::make_change call (greedy.rs / random.rs) ----
    spc,        \* position of the call: "idle", "loop", "done"
    strat,      \* which implementation runs: "greedy", "random", "none"
    table,      \* currency.denominations, as the sequence of their cents
    target,     \* the cents argument as passed in
    cents,      \* the mutable cents parameter (the remaining quantity)
    idx,        \* 1-based position of the for loop in the denominations
    result,     \* the Vec being built: a sequence of <<denom cents, count>>
    rng,        \* the random source's state: [seed, pos]
    oracle,     \* what the seeded source has answered so far: a function
                \* from <<rng state, max_count>> to the value it returned
    \* ---- one call into src/parse.rs ----
    pop,        \* the function called: "none", "dollars", "line", "input"
    pin,        \* its text argument, a sequence of characters
    pline,      \* its line_number argument (0 when there is none)
    pret,       \* what it returned
    overflow_checks, \* the build: TRUE when u32 overflow aborts (debug
                \* profile), FALSE when it wraps modulo 2^32 (release profile)
    \* ---- one make_change_for call (src/rules.rs) ----
    mpc,        \* position of the call: "idle", "strategy", "returned"
    mtx,        \* its transaction argument
    mdiv,       \* its divisor argument
    mrng,       \* the state of the caller's random source at entry
    mret,       \* the Breakdown it returned
    calls,      \* history: the RandomStrategy calls completed so far, each
                \* [rng0, target, table, result, rng1]
    \* ---- the command-line run (src/main.rs) ----
    rpc,        \* position of main: "idle", "loop", "calling", "exited",
                \* "aborted"
    args,       \* the parsed arguments: [divisor, seed, currency, verbose]
    input,      \* the content of the input file
    results,    \* parse_input(&input)
    ri,         \* 1-based position of the for loop in results
    stdout,     \* the lines printed so far
    stderr,     \* the errors reported so far
    had_error,
    exit_code,  \* the process exit status, -1 while running
    run_no,     \* how many times the binary was started on these arguments
    first,      \* what the first run printed and left, once it has ended
    \* ---- RandomStrategy::make_change over every outcome of its draws ----
    outcomes    \* the set of [cents, idx, result, rng, spc] the call can be
                \* in after the iterations made so far

svars == <<spc, strat, table, target, cents, idx, result, rng, oracle>>
pvars == <<pop, pin, pline, pret>>
mvars == <<mpc, mtx, mdiv, mrng, mret, calls>>
rvars == <<rpc, args, input, results, ri, stdout, stderr, had_error, exit_code,
           run_no, first>>
vars == <<svars, pvars, overflow_checks, mvars, rvars, outcomes>>

-----------------------------------------------------------------------------
(* Bounds of the model *)
MaxTarget == 30
MaxOutcomeTarget == 12
MaxDenom == 4
MaxSeed == 1
MaxRefTarget == 300

-----------------------------------------------------------------------------
(* Currency tables: src/currency.rs *)
USDUnsorted == <<100, 10, 25, 5, 1>>
USD == <<100, 25, 10, 5, 1>>
EUR == <<200, 100, 50, 20, 10, 5, 2, 1>>

SetMax(S) == CHOOSE m \in S : \A x \in S : x <= m

RECURSIVE Descending(_)
Descending(S) == IF S = {} THEN <<>>
                 ELSE <<SetMax(S)>> \o Descending(S \ {SetMax(S)})

\* The invariant of Currency.denominations: strictly descending, ending in 1.
ValidTable(t) ==
    /\ Len(t) >= 1
    /\ \A k \in 1..Len(t) : t[k] >= 1
    /\ \A k \in 1..(Len(t) - 1) : t[k] > t[k + 1]
    /\ t[Len(t)] = 1

SmallTables == { Descending(S \cup {1}) : S \in SUBSET (2..MaxDenom) }
Tables == {USD, EUR} \cup SmallTables
Targets == 0..MaxTarget
Currencies == {USD, EUR}
ReferenceTargets == 0..MaxRefTarget
Seeds == 0..MaxSeed

-----------------------------------------------------------------------------
(* Breakdown helpers *)
RECURSIVE BreakdownSum(_)
BreakdownSum(b) == IF b = <<>> THEN 0
                   ELSE b[1][1] * b[1][2] + BreakdownSum(Tail(b))

\* result.push((denom, count))
PushFront(res, denom, count) == <<(<<denom, count>>)>> \o res
Push(res, denom, count) == Append(res, <<denom, count>>)

\* let count = cents / denom.cents   (greedy.rs)
GreedyCountCeil(c, denom) == (c + denom - 1) \div denom
GreedyCountShort(c, denom) == (c - 1) \div denom
GreedyCount(c, denom) == c \div denom

\* if count > 0 { result.push((denom, count)); cents -= count * denom.cents; }
\* (greedy.rs): the result and the remaining cents after the block.
GreedyTakeNoSubtract(res, c, denom, count) ==
    IF count > 0
    THEN [result |-> Push(res, denom, count), cents |-> c]
    ELSE [result |-> res, cents |-> c]
GreedyTake(res, c, denom, count) ==
    IF count > 0
    THEN [result |-> Push(res, denom, count), cents |-> c - count * denom]
    ELSE [result |-> res, cents |-> c]

\* GreedyStrategy::make_change as a function: the walk over denoms from the
\* remaining c and the result res so far.
RECURSIVE GreedyWalk(_, _, _)
GreedyWalk(c, denoms, res) ==
    IF denoms = <<>> \/ c = 0 THEN res
    ELSE LET taken == GreedyTake(res, c, denoms[1], GreedyCount(c, denoms[1]))
         IN  GreedyWalk(taken.cents, Tail(denoms), taken.result)

\* let max_count = cents / denom.cents   (random.rs)
MaxCount(c, denom) == c \div denom

\* let is_last = i == denoms.len() - 1   (i is 0-based in the code, idx = i + 1)
IsLastNever(i, denoms) == i = Len(denoms) + 1
IsLast(i, denoms) == i = Len(denoms)

\* if count > 0 { result.push((denom, count)); cents -= count * denom.cents; }
\* (random.rs): the result and the remaining cents after the block.
RandomTakeAlways(res, c, denom, count) ==
    [result |-> Push(res, denom, count), cents |-> c - count * denom]
RandomTake(res, c, denom, count) ==
    IF count > 0
    THEN [result |-> Push(res, denom, count), cents |-> c - count * denom]
    ELSE [result |-> res, cents |-> c]

\* self.rng.gen_range(0..=max_count): a seeded source answers the same
\* question in the same state the same way; a fresh question may get any
\* value of the inclusive range.
GenRangeEntropy(r, max_count) == 0..max_count
GenRangeBeyond(r, max_count) ==
    IF <<r, max_count>> \in DOMAIN oracle
    THEN {oracle[<<r, max_count>>]}
    ELSE 0..(max_count + 1)
GenRangeExclusive(r, max_count) ==
    IF <<r, max_count>> \in DOMAIN oracle
    THEN {oracle[<<r, max_count>>]}
    ELSE 0..(max_count - 1)
GenRangeOutcomes(r, max_count) ==
    IF <<r, max_count>> \in DOMAIN oracle
    THEN {oracle[<<r, max_count>>]}
    ELSE 0..max_count

-----------------------------------------------------------------------------
(* Text: a str is the sequence of its characters *)
Digits == <<"0", "1", "2", "3", "4", "5", "6", "7", "8", "9">>
IsDigit(c) == \E k \in 1..Len(Digits) : Digits[k] = c
DigitValue(c) == (CHOOSE k \in 1..Len(Digits) : Digits[k] = c) - 1

\* char::is_whitespace, for the characters of the model
IsWhitespace(c) == c \in {" ", "\t", "\r", "\n"}

RECURSIVE TrimStart(_)
TrimStart(s) == IF s # <<>> /\ IsWhitespace(s[1]) THEN TrimStart(Tail(s)) ELSE s

RECURSIVE TrimEnd(_)
TrimEnd(s) == IF s # <<>> /\ IsWhitespace(s[Len(s)])
              THEN TrimEnd(SubSeq(s, 1, Len(s) - 1)) ELSE s

\* str::trim
Trim(s) == TrimEnd(TrimStart(s))

\* str::split_once(ch): the parts before and after the first ch, if any
SplitOnce(s, ch) ==
    IF \E k \in 1..Len(s) : s[k] = ch
    THEN LET k == CHOOSE j \in 1..Len(s) :
                      s[j] = ch /\ \A m \in 1..(j - 1) : s[m] # ch
         IN  [found |-> TRUE, left |-> SubSeq(s, 1, k - 1),
              right |-> SubSeq(s, k + 1, Len(s))]
    ELSE [found |-> FALSE, left |-> s, right |-> <<>>]

-----------------------------------------------------------------------------
(* u32 arithmetic.  A number is [hi, lo] = hi * 2^16 + lo with lo < 2^16;  *)
(* it is a u32 when hi < 2^16 too.                                         *)
LimbBase == 65536

Norm(h, l) == [hi |-> h + (l \div LimbBase), lo |-> l % LimbBase]
U32(n) == Norm(0, n)
FitsU32(v) == v.hi < LimbBase
WrapU32(v) == [hi |-> v.hi % LimbBase, lo |-> v.lo]
NumTimes(v, k) == Norm(v.hi * k, v.lo * k)
NumPlus(v, w) == Norm(v.hi + w.hi, v.lo + w.lo)
NumLess(v, w) == v.hi < w.hi \/ (v.hi = w.hi /\ v.lo < w.lo)
\* v - w, modulo 2^32 when w > v
NumMinusWrapped(v, w) ==
    LET l == v.lo - w.lo
        borrow == IF l < 0 THEN 1 ELSE 0
    IN  [hi |-> (v.hi - w.hi - borrow) % LimbBase, lo |-> l % LimbBase]

Ok(v) == [kind |-> "ok", val |-> v]
Err(m) == [kind |-> "err", msg |-> m]
Panic == [kind |-> "panic"]

\* The outcome of a u32 operation whose exact value is v: an abort under
\* overflow checks, the value modulo 2^32 without them.
Arith(v, checks) ==
    IF FitsU32(v) THEN Ok(v)
    ELSE IF checks THEN Panic ELSE Ok(WrapU32(v))

\* paid_cents - owed_cents
U32Sub(v, w, checks) ==
    IF NumLess(v, w)
    THEN IF checks THEN Panic ELSE Ok(NumMinusWrapped(v, w))
    ELSE Ok(NumMinusWrapped(v, w))

\* <u32 as FromStr>::from_str, as s.parse() calls it: an optional leading
\* '+', then one or more ASCII digits, failing on overflow of the u32.
RECURSIVE AccumulateDigits(_, _)
AccumulateDigits(s, acc) ==
    IF s = <<>> THEN Ok(acc)
    ELSE IF ~IsDigit(s[1]) THEN Err("InvalidDigit")
    ELSE LET next == NumPlus(NumTimes(acc, 10), U32(DigitValue(s[1])))
         IN  IF FitsU32(next) THEN AccumulateDigits(Tail(s), next)
             ELSE Err("PosOverflow")

ParseU32(s) ==
    IF s = <<>> THEN Err("Empty")
    ELSE IF Len(s) = 1 /\ s[1] \in {"+", "-"} THEN Err("InvalidDigit")
    ELSE IF s[1] = "+" THEN AccumulateDigits(Tail(s), U32(0))
    ELSE AccumulateDigits(s, U32(0))

-----------------------------------------------------------------------------
(* src/parse.rs *)

\* dollars * 100 + cents
DollarsAndCents(dollars, c, checks) ==
    LET product == Arith(NumTimes(dollars, 100), checks)
    IN  IF product.kind # "ok" THEN product
        ELSE Arith(NumPlus(product.val, c), checks)

\* Pad single digit: "3.1" means 10 cents, not 1 cent
Padded(cents_str) ==
    IF Len(cents_str) = 1 THEN cents_str \o <<"0">> ELSE cents_str

parse_dollars_to_cents(text, checks) ==
    LET s == Trim(text)
        parts == SplitOnce(s, ".")
    IN  IF s = <<>> THEN Err("empty string")
        ELSE IF ~parts.found
        THEN LET dollars == ParseU32(s)
             IN  IF dollars.kind = "err" THEN Err("not a valid number")
                 ELSE Arith(NumTimes(dollars.val, 100), checks)
        ELSE LET dollars_str == parts.left
                 cents_str == parts.right
                 dollars == ParseU32(dollars_str)
                 cts == ParseU32(Padded(cents_str))
             IN  IF Len(cents_str) > 2 THEN Err("too many decimal places")
                 ELSE IF dollars.kind = "err" THEN Err("invalid dollar part")
                 ELSE IF cts.kind = "err" THEN Err("invalid cents part")
                 ELSE DollarsAndCents(dollars.val, cts.val, checks)

\* CashRegisterError values
\* MalformedLine's detail is format!("expected \"owed,paid\" but got \"{line}\"")
MalformedLineZeroBased(n, line) ==
    [type |-> "MalformedLine", line |-> n - 1,
     detail |-> [expected |-> "owed,paid", got |-> line]]
MalformedLine(n, line) ==
    [type |-> "MalformedLine", line |-> n,
     detail |-> [expected |-> "owed,paid", got |-> line]]
InvalidAmount(n, token) == [type |-> "InvalidAmount", line |-> n, input |-> token]
Underpayment(n, owed, paid) ==
    [type |-> "Underpayment", line |-> n, owed |-> owed, paid |-> paid]

OkTx(owed, paid, change) ==
    [kind |-> "ok",
     tx |-> [owed_cents |-> owed, paid_cents |-> paid, change_cents |-> change]]
Fail(e) == [kind |-> "err", error |-> e]

\* if paid_cents < owed_cents
IsUnderpaidSwapped(paid_cents, owed_cents) == NumLess(owed_cents, paid_cents)
IsUnderpaidOrEqual(paid_cents, owed_cents) == ~NumLess(owed_cents, paid_cents)
IsUnderpaid(paid_cents, owed_cents) == NumLess(paid_cents, owed_cents)

parse_linePaidFirst(text, line_number, checks) ==
    LET line == Trim(text)
        parts == SplitOnce(line, ",")
        owed_str == parts.left
        paid_str == parts.right
        owed == parse_dollars_to_cents(owed_str, checks)
        paid == parse_dollars_to_cents(paid_str, checks)
    IN  IF ~parts.found THEN Fail(MalformedLine(line_number, line))
        ELSE IF paid.kind = "panic" THEN Panic
        ELSE IF paid.kind = "err"
        THEN Fail(InvalidAmount(line_number, Trim(paid_str)))
        ELSE IF owed.kind = "panic" THEN Panic
        ELSE IF owed.kind = "err"
        THEN Fail(InvalidAmount(line_number, Trim(owed_str)))
        ELSE IF IsUnderpaid(paid.val, owed.val)
        THEN Fail(Underpayment(line_number, Trim(owed_str), Trim(paid_str)))
        ELSE LET change == U32Sub(paid.val, owed.val, checks)
             IN  IF change.kind = "panic" THEN Panic
                 ELSE OkTx(owed.val, paid.val, change.val)

parse_line(text, line_number, checks) ==
    LET line == Trim(text)
        parts == SplitOnce(line, ",")
        owed_str == parts.left
        paid_str == parts.right
        owed == parse_dollars_to_cents(owed_str, checks)
        paid == parse_dollars_to_cents(paid_str, checks)
    IN  IF ~parts.found THEN Fail(MalformedLine(line_number, line))
        ELSE IF owed.kind = "panic" THEN Panic
        ELSE IF owed.kind = "err"
        THEN Fail(InvalidAmount(line_number, Trim(owed_str)))
        ELSE IF paid.kind = "panic" THEN Panic
        ELSE IF paid.kind = "err"
        THEN Fail(InvalidAmount(line_number, Trim(paid_str)))
        ELSE IF IsUnderpaid(paid.val, owed.val)
        THEN Fail(Underpayment(line_number, Trim(owed_str), Trim(paid_str)))
        ELSE LET change == U32Sub(paid.val, owed.val, checks)
             IN  IF change.kind = "panic" THEN Panic
                 ELSE OkTx(owed.val, paid.val, change.val)

\* str::lines: the text split at "\n", a "\r" before it dropped, no line
\* yielded for the empty text after a final "\n".
StripCR(l) == IF l # <<>> /\ l[Len(l)] = "\r" THEN SubSeq(l, 1, Len(l) - 1) ELSE l

RECURSIVE SplitLines(_)
SplitLines(text) ==
    IF text = <<>> THEN <<>>
    ELSE LET parts == SplitOnce(text, "\n")
         IN  IF parts.found
             THEN <<StripCR(parts.left)>> \o SplitLines(parts.right)
             ELSE <<StripCR(text)>>

\* parse_input: enumerate the lines, drop the blank ones, parse_line each
\* with its 1-based number.  A panic inside parse_line unwinds out of it.
NotBlank(l) == Trim(l) # <<>>

ParseLinesFilterFirst(ls, i, checks) ==
    LET kept == SelectSeq(SubSeq(ls, i, Len(ls)), NotBlank)
    IN  [k \in 1..Len(kept) |-> parse_line(kept[k], k, checks)]

RECURSIVE ParseLines(_, _, _)
ParseLines(ls, i, checks) ==
    IF i > Len(ls) THEN <<>>
    ELSE IF ~NotBlank(ls[i]) THEN ParseLines(ls, i + 1, checks)
    ELSE <<parse_line(ls[i], i, checks)>> \o ParseLines(ls, i + 1, checks)

parse_input(text, checks) ==
    LET rs == ParseLines(SplitLines(text), 1, checks)
    IN  IF \E k \in 1..Len(rs) : rs[k].kind = "panic"
        THEN Panic ELSE [kind |-> "ok", results |-> rs]

-----------------------------------------------------------------------------
(* Calls into the parser, over bounded texts *)
MaxTextLen == 4
MaxLineLen == 5
MaxLineNo == 2
MaxBatchLines == 3

TextAlphabet == {"0", "1", "2", ".", " ", "+", "a"}
LineAlphabet == {"1", "2", ".", ",", " ", "+", "a"}

Strings(alphabet, n) == UNION { [1..k -> alphabet] : k \in 0..n }

\* The decimal text of a natural number
RECURSIVE Dec(_)
Dec(n) == IF n < 10 THEN <<Digits[n + 1]>>
          ELSE Dec(n \div 10) \o <<Digits[(n % 10) + 1]>>

\* The text of an amount of d dollars and c cents, with two decimals
Amount(d, c) == Dec(d) \o <<".">> \o (IF c < 10 THEN <<"0">> ELSE <<>>) \o Dec(c)

\* Texts around u32::MAX = 4294967295 and around u32::MAX / 100
BoundaryTexts ==
    { Dec(42949672), Dec(42949673),
      Dec(42949672) \o <<".">> \o Dec(95), Dec(42949672) \o <<".">> \o Dec(96),
      Dec(42949) \o Dec(67295), Dec(42949) \o Dec(67296),
      Dec(2) \o <<".">> \o Dec(13), Dec(3) \o <<".">> \o Dec(1) \o <<"2", "3">> }

Texts == Strings(TextAlphabet, MaxTextLen) \cup BoundaryTexts

BoundaryLines ==
    { Dec(42949672) \o <<",">> \o Dec(42949673),
      Dec(42949673) \o <<",">> \o Dec(5),
      <<"2", ".", "1", "2", ",", "3", ".", "0", "0">>,
      <<"5", ".", "0", "0", ",", "3", ".", "0", "0">>,
      <<" ", "2", ".", "5", " ", ",", " ", "1", " ">>,
      <<"1", ",", "2", ",", "3">>,
      <<" ">> \o Dec(42949673) \o <<" ">>,
      <<"a", ",">> \o Dec(42949673),
      Amount(1, 0) \o <<",">> \o Amount(2, 0) \o <<",">> \o Amount(3, 0) }

Lines == Strings(LineAlphabet, MaxLineLen) \cup BoundaryLines
LineNumbers == 1..MaxLineNo

ParseIdle ==
    /\ pop = "none"
    /\ pin = <<>>
    /\ pline = 0
    /\ pret = [kind |-> "none"]

CallParseDollars ==
    /\ pop = "none"
    /\ \E text \in Texts :
          /\ pin' = text
          /\ pret' = parse_dollars_to_cents(text, overflow_checks)
    /\ pop' = "dollars"
    /\ UNCHANGED <<pline, svars, overflow_checks, outcomes, mvars, rvars>>

CallParseLine ==
    /\ pop = "none"
    /\ \E text \in Lines, n \in LineNumbers :
          /\ pin' = text
          /\ pline' = n
          /\ pret' = parse_line(text, n, overflow_checks)
    /\ pop' = "line"
    /\ UNCHANGED <<svars, overflow_checks, outcomes, mvars, rvars>>

\* Input texts for parse_input: up to MaxBatchLines lines, each ended by
\* "\n" or by "\r\n", the last line's ending optional.
BatchLines ==
    { Dec(1) \o <<",">> \o Dec(2),                 \* a transaction
      Dec(2) \o <<",">> \o Dec(1),                 \* underpayment
      <<"a", ",">> \o Dec(1),                      \* owed is no amount
      <<"b", "a", "d">>,                           \* no comma
      <<>>,                                        \* blank
      <<" ", " ">>,                                \* whitespace only
      Dec(1) \o <<",">> \o Dec(42949673) }         \* paid * 100 exceeds u32

RECURSIVE Terminated(_, _, _)
Terminated(ls, ending, final) ==
    IF ls = <<>> THEN <<>>
    ELSE IF Len(ls) = 1 THEN ls[1] \o (IF final THEN ending ELSE <<>>)
    ELSE ls[1] \o ending \o Terminated(Tail(ls), ending, final)

Batches ==
    { Terminated(ls, ending, final) :
        ls \in UNION { [1..k -> BatchLines] : k \in 0..MaxBatchLines },
        ending \in {<<"\n">>, <<"\r", "\n">>},
        final \in BOOLEAN }

CallParseInput ==
    /\ pop = "none"
    /\ \E text \in Batches :
          /\ pin' = text
          /\ pret' = parse_input(text, overflow_checks)
    /\ pop' = "input"
    /\ UNCHANGED <<pline, svars, overflow_checks, outcomes, mvars, rvars>>


-----------------------------------------------------------------------------
(* The strategy call *)
StrategyIdle ==
    /\ spc = "idle"
    /\ strat = "none"
    /\ table = <<>>
    /\ target = 0
    /\ cents = 0
    /\ idx = 0
    /\ result = <<>>
    /\ outcomes = {}

\* Entry of make_change: let mut result = Vec::new(); the loop starts.
Enter(s, t, c) ==
    /\ strat' = s
    /\ table' = t
    /\ target' = c
    /\ cents' = c
    /\ idx' = 1
    /\ result' = <<>>
    /\ spc' = "loop"

\* A direct call of a strategy, as the unit and property tests make it.
MakeChangeCall ==
    /\ spc = "idle"
    /\ \E s \in {"greedy", "random"}, t \in Tables, c \in Targets, seed \in Seeds :
          /\ Enter(s, t, c)
          /\ rng' = IF s = "random" THEN [seed |-> seed, pos |-> 0] ELSE rng
    /\ UNCHANGED <<oracle, pvars, overflow_checks, outcomes, mvars, rvars>>

\* A call of GreedyStrategy on a reference currency, over targets of several
\* units of the largest denominations, as the property tests make it.
GreedyReferenceCall ==
    /\ spc = "idle"
    /\ \E t \in Currencies, c \in ReferenceTargets : Enter("greedy", t, c)
    /\ UNCHANGED <<rng, oracle, pvars, overflow_checks, outcomes, mvars, rvars>>

\* One iteration of GreedyStrategy::make_change's for loop.
GreedyStep ==
    /\ spc = "loop"
    /\ strat = "greedy"
    /\ idx <= Len(table)
    /\ IF cents = 0
       THEN /\ spc' = "done"
            /\ UNCHANGED <<cents, idx, result>>
       ELSE LET denom == table[idx]
                count == GreedyCount(cents, denom)
                taken == GreedyTake(result, cents, denom, count)
            IN  /\ result' = taken.result
                /\ cents' = taken.cents
                /\ idx' = idx + 1
                /\ UNCHANGED spc
    /\ UNCHANGED <<strat, table, target, rng, oracle>>
    /\ UNCHANGED <<pvars, overflow_checks, outcomes, mvars, rvars>>

\* One iteration of RandomStrategy::make_change's for loop.
RandomStep ==
    /\ spc = "loop"
    /\ strat = "random"
    /\ idx <= Len(table)
    /\ IF cents = 0
       THEN /\ spc' = "done"
            /\ UNCHANGED <<cents, idx, result, rng, oracle>>
       ELSE LET denom == table[idx]
                max_count == MaxCount(cents, denom)
            IN  IF max_count = 0
                THEN /\ idx' = idx + 1
                     /\ UNCHANGED <<spc, cents, result, rng, oracle>>
                ELSE IF IsLast(idx, table)
                THEN LET taken == RandomTake(result, cents, denom, max_count)
                     IN  /\ result' = taken.result
                         /\ cents' = taken.cents
                         /\ idx' = idx + 1
                         /\ UNCHANGED <<spc, rng, oracle>>
                ELSE \E count \in GenRangeOutcomes(rng, max_count) :
                     LET taken == RandomTake(result, cents, denom, count)
                     IN  /\ rng' = [rng EXCEPT !.pos = @ + 1]
                         /\ oracle' = (<<rng, max_count>> :> count) @@ oracle
                         /\ result' = taken.result
                         /\ cents' = taken.cents
                         /\ idx' = idx + 1
                         /\ UNCHANGED spc
    /\ UNCHANGED <<strat, table, target, pvars,
                 overflow_checks, outcomes, mvars, rvars>>

\* The for loop ends when the denominations are exhausted; result is returned.
LoopExit ==
    /\ spc = "loop"
    /\ idx > Len(table)
    /\ spc' = "done"
    /\ UNCHANGED <<strat, table, target, cents, idx, result, rng, oracle>>
    /\ UNCHANGED <<pvars, overflow_checks, outcomes, mvars, rvars>>

-----------------------------------------------------------------------------
(* src/rules.rs: make_change_for *)
MaxOwed == 6
MaxChange == 12
MaxDivisor == 4

\* The value of a u32 of the model's range as an integer
ToInt(v) == v.hi * LimbBase + v.lo

\* u32::is_multiple_of: n.is_multiple_of(0) is n == 0, and no division is
\* made; otherwise n % d == 0.
IsMultipleOf(v, d) ==
    IF d = 0 THEN v = U32(0)
    ELSE ((v.hi % d) * (LimbBase % d) + (v.lo % d)) % d = 0

\* divisor > 0 && transaction.owed_cents.is_multiple_of(divisor)
SelectsRandomUnguarded(tx, divisor) == IsMultipleOf(tx.owed_cents, divisor)
SelectsRandomInverted(tx, divisor) ==
    divisor > 0 /\ ~IsMultipleOf(tx.owed_cents, divisor)
SelectsRandom(tx, divisor) ==
    divisor > 0 /\ IsMultipleOf(tx.owed_cents, divisor)

\* fn tx(owed, paid) of the tests of rules.rs
Tx(owed, paid) ==
    [owed_cents |-> U32(owed), paid_cents |-> U32(paid),
     change_cents |-> U32(paid - owed)]

Transactions ==
    { Tx(owed, owed + change) : owed \in 0..MaxOwed, change \in 0..MaxChange }
Divisors == 0..MaxDivisor

NoTx == [owed_cents |-> U32(0), paid_cents |-> U32(0), change_cents |-> U32(0)]

DispatchIdle ==
    /\ mpc = "idle"
    /\ mtx = NoTx
    /\ mdiv = 0
    /\ mrng = [seed |-> 0, pos |-> 0]
    /\ mret = <<>>
    /\ calls = {}

\* Entry of make_change_for(transaction, currency, divisor, rng), up to the
\* early return or the entry of the selected strategy's make_change.
MakeChangeForEnter(tx, currency, divisor) ==
    /\ mtx' = tx
    /\ mdiv' = divisor
    /\ mrng' = rng'
    /\ UNCHANGED calls
    /\ IF tx.change_cents = U32(0)
       THEN /\ mret' = <<>>
            /\ mpc' = "returned"
            /\ UNCHANGED <<spc, strat, table, target, cents, idx, result>>
       ELSE /\ mpc' = "strategy"
            /\ UNCHANGED mret
            /\ IF SelectsRandom(tx, divisor)
               THEN Enter("random", currency, ToInt(tx.change_cents))
               ELSE Enter("greedy", currency, ToInt(tx.change_cents))

\* The selected strategy's make_change has returned: make_change_for returns
\* its Breakdown.
MakeChangeForReturn ==
    /\ mpc = "strategy"
    /\ spc = "done"
    /\ mret' = result
    /\ mpc' = "returned"
    /\ calls' = IF strat = "random"
                THEN calls \cup {[rng0 |-> mrng, target |-> target,
                                  table |-> table, result |-> result,
                                  rng1 |-> rng]}
                ELSE calls
    /\ spc' = "idle"
    /\ UNCHANGED <<strat, table, target, cents, idx, result, rng, oracle>>
    /\ UNCHANGED <<mtx, mdiv, mrng>>
    /\ UNCHANGED <<pvars, overflow_checks, outcomes, rvars>>

\* A direct call of make_change_for, as the tests of rules.rs make it.
MakeChangeForCall ==
    /\ mpc = "idle"
    /\ spc = "idle"
    /\ \E tx \in Transactions, currency \in Currencies, divisor \in Divisors,
          seed \in Seeds :
          /\ rng' = [seed |-> seed, pos |-> 0]
          /\ MakeChangeForEnter(tx, currency, divisor)
    /\ UNCHANGED <<oracle, pvars, overflow_checks, outcomes, rvars>>

-----------------------------------------------------------------------------
(* src/main.rs *)
RunIdle ==
    /\ rpc = "idle"
    /\ args = [divisor |-> 0, seed |-> -1, currency |-> <<>>, verbose |-> FALSE]
    /\ input = <<>>
    /\ results = <<>>
    /\ ri = 0
    /\ stdout = <<>>
    /\ stderr = <<>>
    /\ had_error = FALSE
    /\ exit_code = -1
    /\ run_no = 0
    /\ first = [kind |-> "none"]

\* format_breakdown: "no change", or "{count} {name}" per entry joined by
\* ",", the name the denomination's singular when count is 1, else its plural
format_breakdown(breakdown) ==
    IF breakdown = <<>> THEN <<"no change">>
    ELSE [k \in 1..Len(breakdown) |->
            [count |-> breakdown[k][2],
             name |-> <<IF breakdown[k][2] = 1 THEN "singular" ELSE "plural",
                        breakdown[k][1]>>]]

\* format_amount: "{}.{:02}" of cents / 100 and cents % 100
format_amount(c) == [whole |-> ToInt(c) \div 100, frac |-> ToInt(c) % 100]

\* format_verbose: "Owed {}, Paid {} -> {change}{label}".  main passes
\* (transaction, breakdown, is_random); the currency symbol that format.rs
\* also takes is left out of the line.
format_verbose(tx, breakdown, is_random) ==
    [owed |-> format_amount(tx.owed_cents),
     paid |-> format_amount(tx.paid_cents),
     change |-> format_breakdown(breakdown),
     label |-> IF is_random THEN " (random)" ELSE ""]

MaxLines == 2

SampleLines ==
    { Dec(3) \o <<",">> \o Amount(3, 6),      \* owed 300, change 6
      Dec(1) \o <<",">> \o Amount(1, 6),      \* owed 100, change 6
      Dec(3) \o <<",">> \o Dec(3),            \* exact payment
      <<"b", "a", "d">>,                      \* no comma
      Dec(1) \o <<",">> \o Dec(42949673),     \* paid * 100 exceeds u32: the
                                              \* panic, or 4 cents paid (an
                                              \* underpayment) when it wraps
      <<>> }                                  \* blank

RECURSIVE JoinLines(_)
JoinLines(ls) ==
    IF ls = <<>> THEN <<>>
    ELSE IF Len(ls) = 1 THEN ls[1]
    ELSE ls[1] \o <<"\n">> \o JoinLines(Tail(ls))

Inputs == { JoinLines(ls) : ls \in UNION { [1..k -> SampleLines] : k \in 0..MaxLines } }
RunDivisors == {0, 3}
SeedOptions == Seeds \cup {-1}

\* StdRng::seed_from_u64(s), or StdRng::from_entropy(): a state no other
\* run starts from
InitialRng(seed, run) ==
    IF seed >= 0 THEN [seed |-> seed, pos |-> 0]
    ELSE [seed |-> 0 - run, pos |-> 0]

\* main from the reading of the file to the head of the for loop
Startup(a, text, run) ==
    LET parsed == parse_input(text, overflow_checks)
    IN  /\ had_error' = FALSE
        /\ rng' = InitialRng(a.seed, run)
        /\ stdout' = <<>>
        /\ stderr' = <<>>
        /\ IF parsed.kind = "panic"
           THEN /\ rpc' = "aborted"
                /\ exit_code' = 101
                /\ results' = <<>>
                /\ ri' = 0
           ELSE /\ rpc' = "loop"
                /\ exit_code' = -1
                /\ results' = parsed.results
                /\ ri' = 1

RunStart ==
    /\ rpc = "idle"
    /\ \E text \in Inputs, divisor \in RunDivisors, seed \in SeedOptions,
          currency \in Currencies, verbose \in BOOLEAN :
          /\ args' = [divisor |-> divisor, seed |-> seed,
                      currency |-> currency, verbose |-> verbose]
          /\ input' = text
          /\ Startup(args', text, 1)
    /\ run_no' = 1
    /\ UNCHANGED first
    /\ UNCHANGED <<spc, strat, table, target, cents, idx, result, oracle>>
    /\ UNCHANGED <<pvars, overflow_checks, outcomes, mvars>>

\* Err(e) => { eprintln!("{e}"); had_error = true; }
RunReportError ==
    /\ rpc = "loop"
    /\ ri <= Len(results)
    /\ results[ri].kind = "err"
    /\ stderr' = Append(stderr, results[ri].error)
    /\ had_error' = TRUE
    /\ ri' = ri + 1
    /\ UNCHANGED <<rpc, args, input, results, stdout, exit_code, run_no, first>>
    /\ UNCHANGED <<svars, pvars, overflow_checks, outcomes, mvars>>

\* Ok(transaction) => { let breakdown = make_change_for(..): the call
RunCallMakeChange ==
    /\ rpc = "loop"
    /\ ri <= Len(results)
    /\ results[ri].kind = "ok"
    /\ mpc = "idle"
    /\ UNCHANGED <<rng, oracle>>
    /\ MakeChangeForEnter(results[ri].tx, args.currency, args.divisor)
    /\ rpc' = "calling"
    /\ UNCHANGED <<args, input, results, ri, stdout, stderr, had_error,
                   exit_code, run_no, first>>
    /\ UNCHANGED <<pvars, overflow_checks, outcomes>>

\* let is_random = divisor > 0 && transaction.owed_cents % divisor == 0
IsRandomLabel(tx, divisor) == divisor > 0 /\ ToInt(tx.owed_cents) % divisor = 0

\* ... the call has returned: println!
RunPrint ==
    /\ rpc = "calling"
    /\ mpc = "returned"
    /\ stdout' = Append(stdout,
          IF args.verbose
          THEN format_verbose(mtx, mret, IsRandomLabel(mtx, args.divisor))
          ELSE format_breakdown(mret))
    /\ ri' = ri + 1
    /\ rpc' = "loop"
    /\ mpc' = "idle"
    /\ UNCHANGED <<mtx, mdiv, mrng, mret, calls>>
    /\ UNCHANGED <<args, input, results, stderr, had_error, exit_code,
                   run_no, first>>
    /\ UNCHANGED <<svars, pvars, overflow_checks, outcomes>>

\* if had_error { process::exit(2); }
RunExit ==
    /\ rpc = "loop"
    /\ ri > Len(results)
    /\ exit_code' = IF had_error THEN 2 ELSE 0
    /\ rpc' = "exited"
    /\ UNCHANGED <<args, input, results, ri, stdout, stderr, had_error,
                   run_no, first>>
    /\ UNCHANGED <<svars, pvars, overflow_checks, outcomes, mvars>>

\* The binary is started a second time on the same file with the same
\* arguments, a --seed among them (seed_produces_deterministic_output).
RunAgain ==
    /\ rpc \in {"exited", "aborted"}
    /\ run_no = 1
    /\ args.seed >= 0
    /\ first' = [kind |-> "ended", stdout |-> stdout, stderr |-> stderr,
                 exit_code |-> exit_code, rng |-> rng]
    /\ run_no' = 2
    /\ Startup(args, input, 2)
    /\ UNCHANGED <<args, input>>
    /\ UNCHANGED <<spc, strat, table, target, cents, idx, result, oracle>>
    /\ UNCHANGED <<pvars, overflow_checks, outcomes, mvars>>

\* The calls followed along every outcome: the reference currencies on every
\* target, the small tables on the targets of a few units of each
\* denomination.
OutcomeCalls ==
    (Currencies \X Targets) \cup (SmallTables \X (0..MaxOutcomeTarget))

\* RandomStrategy::make_change followed along every outcome of its draws at
\* once: what one iteration of the for loop (or the exit from it) makes of a
\* position c of the call.  A source no draw has been asked of yet (the
\* oracle holds no answer for it) may answer any value of the range.
RandomIterations(c) ==
    IF c.spc = "done" THEN {c}
    ELSE IF c.idx > Len(table) \/ c.cents = 0 THEN {[c EXCEPT !.spc = "done"]}
    ELSE LET denom == table[c.idx]
             max_count == MaxCount(c.cents, denom)
             After(count, r) ==
                 LET taken == RandomTake(c.result, c.cents, denom, count)
                 IN  [cents |-> taken.cents, idx |-> c.idx + 1,
                      result |-> taken.result, rng |-> r, spc |-> "loop"]
         IN  IF max_count = 0 THEN {[c EXCEPT !.idx = @ + 1]}
             ELSE IF IsLast(c.idx, table) THEN {After(max_count, c.rng)}
             ELSE { After(count, [c.rng EXCEPT !.pos = @ + 1]) :
                      count \in GenRangeOutcomes(c.rng, max_count) }

\* A call of RandomStrategy::make_change on a source no draw was asked of,
\* as the unit tests make it over a sample of seeds.
AllOutcomesCall ==
    /\ spc = "idle"
    /\ outcomes = {}
    /\ \E call \in OutcomeCalls :
          /\ table' = call[1]
          /\ target' = call[2]
          /\ outcomes' = {[cents |-> call[2], idx |-> 1, result |-> <<>>,
                           rng |-> rng, spc |-> "loop"]}
    /\ strat' = "random"
    /\ UNCHANGED <<spc, cents, idx, result, rng, oracle>>
    /\ UNCHANGED <<pvars, overflow_checks, mvars, rvars>>

\* The next iteration of the for loop, in every position the call can be in.
AllOutcomesStep ==
    /\ \E c \in outcomes : c.spc = "loop"
    /\ outcomes' = UNION { RandomIterations(c) : c \in outcomes }
    /\ UNCHANGED <<svars, pvars, overflow_checks, mvars, rvars>>

-----------------------------------------------------------------------------
StrategyInit ==
    /\ StrategyIdle
    /\ rng = [seed |-> 0, pos |-> 0]
    /\ oracle = <<>>
    /\ ParseIdle
    /\ overflow_checks \in BOOLEAN
    /\ DispatchIdle
    /\ RunIdle

StrategyNext ==
    \/ MakeChangeCall
    \/ GreedyReferenceCall
    \/ GreedyStep
    \/ RandomStep
    \/ LoopExit

SpecStrategy == StrategyInit /\ [][StrategyNext]_vars

\* make_change is straight-line code on one thread: once entered, its loop
\* keeps taking its next step until it returns.
SpecStrategyLive ==
    /\ SpecStrategy
    /\ WF_vars(GreedyStep)
    /\ WF_vars(RandomStep)
    /\ WF_vars(LoopExit)

OutcomesNext == AllOutcomesCall \/ AllOutcomesStep

SpecOutcomes == StrategyInit /\ [][OutcomesNext]_vars

ParseInit ==
    /\ ParseIdle
    /\ overflow_checks \in BOOLEAN
    /\ StrategyIdle
    /\ rng = [seed |-> 0, pos |-> 0]
    /\ oracle = <<>>
    /\ DispatchIdle
    /\ RunIdle

ParseNext == CallParseDollars \/ CallParseLine \/ CallParseInput

SpecParse == ParseInit /\ [][ParseNext]_vars

DispatchInit ==
    /\ DispatchIdle
    /\ StrategyIdle
    /\ rng = [seed |-> 0, pos |-> 0]
    /\ oracle = <<>>
    /\ ParseIdle
    /\ overflow_checks \in BOOLEAN
    /\ RunIdle

DispatchNext ==
    \/ MakeChangeForCall
    \/ GreedyStep
    \/ RandomStep
    \/ LoopExit
    \/ MakeChangeForReturn

SpecDispatch == DispatchInit /\ [][DispatchNext]_vars

RunInit ==
    /\ RunIdle
    /\ DispatchIdle
    /\ StrategyIdle
    /\ rng = [seed |-> 0, pos |-> 0]
    /\ oracle = <<>>
    /\ ParseIdle
    /\ overflow_checks \in BOOLEAN

RunNext ==
    \/ RunStart
    \/ RunReportError
    \/ RunCallMakeChange
    \/ GreedyStep
    \/ RandomStep
    \/ LoopExit
    \/ MakeChangeForReturn
    \/ RunPrint
    \/ RunExit
    \/ RunAgain

SpecRun == RunInit /\ [][RunNext]_vars

-----------------------------------------------------------------------------
(* Properties of the strategies *)

\* a is a subsequence of b: a's elements appear in b, in b's order, each
\* position of b used at most once.
RECURSIVE IsSubsequence(_, _)
IsSubsequence(a, b) ==
    IF a = <<>> THEN TRUE
    ELSE IF b = <<>> THEN FALSE
    ELSE IF a[1] = b[1] THEN IsSubsequence(Tail(a), Tail(b))
    ELSE IsSubsequence(a, Tail(b))

Denoms(b) == [k \in 1..Len(b) |-> b[k][1]]

\* C1: when GreedyStrategy.make_change returns, on a strictly descending
\* table ending in 1, the sum of denomination * count over the breakdown
\* equals the target exactly.
GreedySumsToTarget ==
    (spc = "done" /\ strat = "greedy" /\ ValidTable(table))
        => BreakdownSum(result) = target

GreedySumWitness ==
    /\ spc = "done" /\ strat = "greedy" /\ ValidTable(table)
    /\ target > 0 /\ Len(result) >= 3

\* C2: when RandomStrategy.make_change returns, whatever the draws were, on
\* a strictly descending table ending in 1, the sum of denomination * count
\* over the breakdown equals the target exactly.
RandomSumsToTarget ==
    (spc = "done" /\ strat = "random" /\ ValidTable(table))
        => BreakdownSum(result) = target

RandomSumWitness ==
    /\ spc = "done" /\ strat = "random" /\ ValidTable(table)
    /\ rng.pos >= 2 /\ Len(result) >= 2
    /\ result[Len(result)][1] = 1

\* C3: no entry of a breakdown, of either strategy, at any point of the
\* call, has count 0; a target of 0 returns the empty breakdown.
CountsPositive ==
    /\ \A k \in 1..Len(result) : result[k][2] >= 1
    /\ (spc = "done" /\ target = 0) => result = <<>>

CountsPositiveWitness ==
    /\ spc = "done" /\ strat = "random" /\ target > 0
    /\ rng.pos >= 2 /\ Len(result) = 1
    /\ \E q \in DOMAIN oracle : oracle[q] = 0

\* C4: the denominations of a breakdown form a subsequence of the
\* currency's denomination list: each belongs to the table, none repeats,
\* and they keep the table's descending order.
BreakdownIsSubsequence ==
    /\ IsSubsequence(Denoms(result), table)
    /\ \A j, k \in 1..Len(result) : j < k => result[j][1] > result[k][1]

SubsequenceWitness ==
    /\ spc = "done" /\ Len(result) >= 3 /\ Len(result) < Len(table)

\* The total number of coins of a breakdown
RECURSIVE CoinCount(_)
CoinCount(b) == IF b = <<>> THEN 0 ELSE b[1][2] + CoinCount(Tail(b))

\* The values up to cap that some assignment of counts to denoms sums to
\* with at most n coins in total: 0 with no coin, and v + d for every value
\* v reached with n - 1 coins and every denomination d.
RECURSIVE SumsWithin(_, _, _)
SumsWithin(denoms, n, cap) ==
    IF n < 0 THEN {}
    ELSE IF n = 0 THEN {0}
    ELSE LET fewer == SumsWithin(denoms, n - 1, cap)
             more == { v + denoms[k] : v \in fewer, k \in 1..Len(denoms) }
         IN  fewer \cup (more \cap (0..cap))

\* C14: on the USD and the EUR table, for every target, no assignment of
\* counts to the denominations that sums to the target uses strictly fewer
\* coins than the breakdown GreedyStrategy returns.
GreedyIsFewest ==
    (spc = "done" /\ strat = "greedy" /\ table \in {USD, EUR})
        => target \notin SumsWithin(table, CoinCount(result) - 1, target)

GreedyFewestWitness ==
    /\ spc = "done" /\ strat = "greedy" /\ table = EUR
    /\ target = 288 /\ CoinCount(result) = 7 /\ Len(result) = 7

\* C15: both supplied tables, USD and EUR, hold positive values in strictly
\* descending order and end in the value 1, and so does the table every
\* make_change_for call hands to a strategy.
TablesAreValid ==
    /\ \A c \in Currencies : ValidTable(c)
    /\ mpc = "strategy" => (table \in Currencies /\ ValidTable(table))

TablesValidWitness ==
    /\ mpc = "strategy" /\ spc = "loop" /\ table = EUR
    /\ idx = Len(EUR) /\ table[idx] = 1 /\ cents = 1

\* C16: a make_change call, of either strategy, on a table ending in 1 takes
\* one loop step per denomination at most (each step moves to the next
\* denomination, never past the end of the table), always returns, and
\* returns with nothing remaining.
MakeChangeTerminates ==
    /\ [](spc \in {"loop", "done"} => idx \in 1..(Len(table) + 1))
    /\ [][(spc = "loop" /\ spc' = "loop") => idx' = idx + 1]_vars
    /\ []((spc = "done" /\ table[Len(table)] = 1) => cents = 0)
    /\ (spc = "loop") ~> (spc = "done")

TerminatesWitness ==
    /\ spc = "done" /\ strat = "random" /\ table = EUR
    /\ idx = Len(table) + 1 /\ cents = 0 /\ target > 0

\* C17: in RandomStrategy.make_change, a step at a denomination other than
\* the last takes a count within 0..(remaining / denomination) and consults
\* the random source at most once; the step at the last denomination takes
\* exactly remaining / denomination and leaves the random source untouched.
\* So a call consults the source once per non-last denomination at most.
RandomDrawsConfined ==
    /\ [][(strat = "random" /\ spc = "loop" /\ idx' = idx + 1) =>
            LET denom == table[idx]
                taken == cents - cents'
            IN  /\ taken % denom = 0
                /\ (taken \div denom) \in 0..(cents \div denom)
                /\ rng'.seed = rng.seed
                /\ IF idx = Len(table)
                   THEN taken \div denom = cents \div denom /\ rng' = rng
                   ELSE rng'.pos \in {rng.pos, rng.pos + 1}]_vars
    /\ []((strat = "random" /\ spc \in {"loop", "done"}) =>
            (rng.pos <= idx - 1 /\ rng.pos <= Len(table) - 1))

RandomDrawsWitness ==
    /\ spc = "done" /\ strat = "random" /\ Len(table) >= 3
    /\ rng.pos = Len(table) - 1
    /\ \E q \in DOMAIN oracle : oracle[q] = q[2] /\ q[2] >= 2
    /\ \E q \in DOMAIN oracle : oracle[q] = 0
    /\ result[Len(result)][1] = 1

-----------------------------------------------------------------------------
(* Properties of the parser *)

AllDigits(s) == s # <<>> /\ \A k \in 1..Len(s) : IsDigit(s[k])

\* The decimal form: one or more digits, optionally followed by one '.' and
\* one or two digits.
IsDecimalForm(t) ==
    \/ AllDigits(t)
    \/ \E k \in 1..Len(t) :
          /\ t[k] = "."
          /\ AllDigits(SubSeq(t, 1, k - 1))
          /\ AllDigits(SubSeq(t, k + 1, Len(t)))
          /\ Len(t) - k \in {1, 2}

\* The exact value of a digit string, not reduced modulo anything
RECURSIVE DigitsValue(_, _)
DigitsValue(s, acc) ==
    IF s = <<>> THEN acc
    ELSE DigitsValue(Tail(s), NumPlus(NumTimes(acc, 10), U32(DigitValue(s[1]))))

\* whole * 100 + fractional cents of a text in decimal form
ExactCents(t) ==
    LET parts == SplitOnce(t, ".")
        whole == DigitsValue(parts.left, U32(0))
        frac == IF ~parts.found THEN U32(0)
                ELSE IF Len(parts.right) = 1
                THEN NumTimes(DigitsValue(parts.right, U32(0)), 10)
                ELSE DigitsValue(parts.right, U32(0))
    IN  NumPlus(NumTimes(whole, 100), frac)

\* C7: whenever parse_dollars_to_cents accepts a text (of decimal form, once
\* trimmed), its result is whole * 100 + fractional cents, a missing
\* fraction counting 0 and a one-digit fraction d counting 10 * d.
ParsedValueIsExact ==
    (pop = "dollars" /\ pret.kind = "ok" /\ IsDecimalForm(Trim(pin)))
        => pret.val = ExactCents(Trim(pin))

\* C8: parse_dollars_to_cents returns an error for every text that, once
\* trimmed, is not of the decimal form; it succeeds only on the decimal form.
ParseAcceptsOnlyDecimalForm ==
    (pop = "dollars" /\ ~IsDecimalForm(Trim(pin))) => pret.kind = "err"

\* The two tokens of the line a parse_line call was given
Tokens == SplitOnce(Trim(pin), ",")
OwedParsed == parse_dollars_to_cents(Tokens.left, overflow_checks)
PaidParsed == parse_dollars_to_cents(Tokens.right, overflow_checks)
BothTokensParse ==
    Tokens.found /\ OwedParsed.kind = "ok" /\ PaidParsed.kind = "ok"

\* C9: every Transaction parse_line returns has paid_cents >= owed_cents and
\* change_cents = paid_cents - owed_cents (owed + change = paid, exactly),
\* its owed and paid being what the two tokens of the line parse to.
TransactionInvariant ==
    (pop = "line" /\ pret.kind = "ok") =>
        /\ BothTokensParse
        /\ pret.tx.owed_cents = OwedParsed.val
        /\ pret.tx.paid_cents = PaidParsed.val
        /\ ~NumLess(pret.tx.paid_cents, pret.tx.owed_cents)
        /\ NumPlus(pret.tx.owed_cents, pret.tx.change_cents) = pret.tx.paid_cents

TransactionWitness ==
    /\ pop = "line" /\ pret.kind = "ok"
    /\ pret.tx.owed_cents = U32(212)
    /\ pret.tx.paid_cents = U32(300)
    /\ pret.tx.change_cents = U32(88)

\* C10: when both tokens of the line parse, parse_line fails exactly when
\* paid < owed, the failure is Underpayment with the line number and the
\* trimmed owed and paid tokens, and paid = owed succeeds with change 0.
UnderpaymentExactlyWhenLess ==
    (pop = "line" /\ BothTokensParse) =>
        /\ pret.kind \in {"ok", "err"}
        /\ pret.kind = "err" <=> NumLess(PaidParsed.val, OwedParsed.val)
        /\ pret.kind = "err" =>
              pret.error = Underpayment(pline, Trim(Tokens.left), Trim(Tokens.right))
        /\ PaidParsed.val = OwedParsed.val =>
              pret = OkTx(OwedParsed.val, PaidParsed.val, U32(0))

UnderpaymentWitness ==
    /\ pop = "line" /\ BothTokensParse
    /\ pret.kind = "err" /\ pret.error.type = "Underpayment"
    /\ pret.error.line = 2
    /\ Len(pret.error.owed) < Len(Tokens.left)
    /\ Len(pret.error.paid) < Len(Tokens.right)

-----------------------------------------------------------------------------
(* Properties of the dispatch rule and of seeded runs *)

\* C5: in a make_change_for call on a transaction with change > 0, the
\* Random strategy runs exactly when divisor > 0 and owed is a multiple of
\* divisor (owed = 0 included); otherwise the Greedy strategy runs on
\* change_cents and its breakdown is what make_change_for returns, leaving
\* the random source untouched; divisor = 0 always gives Greedy.
DispatchRule ==
    (mpc \in {"strategy", "returned"} /\ mtx.change_cents # U32(0)) =>
        /\ strat \in {"greedy", "random"}
        /\ strat = "random" <=>
              (mdiv > 0 /\ ToInt(mtx.owed_cents) % mdiv = 0)
        /\ mdiv = 0 => strat = "greedy"
        /\ target = ToInt(mtx.change_cents)
        /\ (mpc = "returned" /\ strat = "greedy") =>
              /\ mret = GreedyWalk(ToInt(mtx.change_cents), table, <<>>)
              /\ rng = mrng
        /\ (mpc = "returned" /\ strat = "random") =>
              [rng0 |-> mrng, target |-> ToInt(mtx.change_cents),
               table |-> table, result |-> mret, rng1 |-> rng] \in calls

DispatchWitness ==
    /\ mpc = "returned" /\ strat = "random"
    /\ mtx.owed_cents = U32(0) /\ mdiv > 1
    /\ Len(mret) >= 2 /\ rng.pos >= 2

\* C6: two RandomStrategy.make_change calls on the same target and currency
\* that start from the same state of the random source return the same
\* breakdown and leave the source in the same state; and a second run of the
\* binary on the same input with the same --seed prints what the first
\* printed and leaves the source where the first left it.
SeededRunsRepeat ==
    /\ \A a, b \in calls :
          (a.rng0 = b.rng0 /\ a.target = b.target /\ a.table = b.table)
              => (a.result = b.result /\ a.rng1 = b.rng1)
    /\ (run_no = 2 /\ rpc \in {"exited", "aborted"} /\ args.seed >= 0) =>
          /\ stdout = first.stdout
          /\ stderr = first.stderr
          /\ exit_code = first.exit_code
          /\ rng = first.rng

SeededRunsWitness ==
    /\ run_no = 2 /\ rpc = "exited" /\ args.seed >= 0
    /\ Len(stdout) = 2 /\ Cardinality(calls) = 2
    /\ rng.pos >= 3
    /\ \E a \in calls : Len(a.result) >= 2

-----------------------------------------------------------------------------
(* Properties of the line validator's errors and of the batch parser *)

HasComma(s) == \E k \in 1..Len(s) : s[k] = ","

\* C11: a line with no comma makes parse_line fail with MalformedLine, which
\* carries the line number passed in and the trimmed line; neither half of
\* the line is parsed as an amount (no amount's overflow can abort the call).
NoCommaIsMalformed ==
    (pop = "line" /\ ~HasComma(pin)) =>
        /\ pret.kind = "err"
        /\ pret.error.type = "MalformedLine"
        /\ pret.error.line = pline
        /\ pret.error.detail.got = Trim(pin)

NoCommaWitness ==
    /\ pop = "line" /\ ~HasComma(pin) /\ overflow_checks
    /\ pline = 2
    /\ pret.kind = "err" /\ pret.error.detail.got = Dec(42949673)
    /\ Len(pin) = Len(Dec(42949673)) + 2

\* The lines of the text a parse_input call was given, the positions of the
\* non-blank ones, and the rank of position i among a set of positions
InputLines == SplitLines(pin)
NonBlankPositions ==
    { i \in 1..Len(InputLines) :
        \E k \in 1..Len(InputLines[i]) : ~IsWhitespace(InputLines[i][k]) }
Rank(S, i) == Cardinality({ j \in S : j <= i })

\* C12: parse_input returns exactly one result per non-blank line, in input
\* order, each the result of parse_line on that line alone; blank lines give
\* no result and a failing line does not stop or change the lines after it.
OneResultPerNonBlankLine ==
    pop = "input" =>
        /\ pret.kind = "ok"
        /\ Len(pret.results) = Cardinality(NonBlankPositions)
        /\ \A i \in NonBlankPositions :
              pret.results[Rank(NonBlankPositions, i)]
                  = parse_line(InputLines[i], i, overflow_checks)

\* C13: the line number of every error parse_input returns is the 1-based
\* position of its line in the input, blank lines before it counted: the
\* k-th result's number n is the position of the k-th non-blank line.
LineNumbersAreOriginal ==
    (pop = "input" /\ pret.kind = "ok") =>
        \A k \in 1..Len(pret.results) :
            pret.results[k].kind = "err" =>
                /\ pret.results[k].error.line \in NonBlankPositions
                /\ Rank(NonBlankPositions, pret.results[k].error.line) = k

LineNumbersWitness ==
    /\ pop = "input" /\ pret.kind = "ok"
    /\ Len(InputLines) = 3 /\ Len(pret.results) = 2
    /\ pret.results[1].kind = "err" /\ pret.results[1].error.line = 2
    /\ pret.results[2].kind = "err" /\ pret.results[2].error.line = 3

CommaCount(s) == Cardinality({ k \in 1..Len(s) : s[k] = "," })

\* C18: every line that does not split into exactly two comma-separated
\* tokens, having no comma or more than one, makes parse_line fail with
\* MalformedLine.
NotTwoTokensIsMalformed ==
    (pop = "line" /\ CommaCount(pin) # 1) =>
        (pret.kind = "err" /\ pret.error.type = "MalformedLine")

\* C19: parse_line classifies in a fixed order: no comma gives MalformedLine;
\* else a failing owed token gives InvalidAmount of the trimmed owed token,
\* whatever the paid token; else a failing paid token gives InvalidAmount of
\* the trimmed paid token; Underpayment only when both tokens parse.  A
\* failing line returns one error, with the line number passed in.
ErrorsInFixedOrder ==
    pop = "line" =>
        /\ ~Tokens.found =>
              (pret.kind = "err" /\ pret.error.type = "MalformedLine")
        /\ (Tokens.found /\ OwedParsed.kind = "err") =>
              /\ pret.kind = "err"
              /\ pret.error.type = "InvalidAmount"
              /\ pret.error.input = Trim(Tokens.left)
        /\ (Tokens.found /\ OwedParsed.kind = "ok" /\ PaidParsed.kind = "err") =>
              /\ pret.kind = "err"
              /\ pret.error.type = "InvalidAmount"
              /\ pret.error.input = Trim(Tokens.right)
        /\ (pret.kind = "err" /\ pret.error.type = "Underpayment") =>
              BothTokensParse
        /\ pret.kind = "err" =>
              /\ pret.error.type \in {"MalformedLine", "InvalidAmount", "Underpayment"}
              /\ pret.error.line = pline

ErrorsOrderWitness ==
    /\ pop = "line" /\ pline = 2 /\ Tokens.found
    /\ OwedParsed.kind = "err" /\ PaidParsed.kind = "err"
    /\ Trim(Tokens.left) # Trim(Tokens.right)
    /\ Len(Trim(Tokens.left)) < Len(Tokens.left)
    /\ pret.kind = "err" /\ pret.error.input = Trim(Tokens.left)

\* The whole part of the text a parse_dollars_to_cents call was given, and
\* its fraction in cents
AmountParts == SplitOnce(Trim(pin), ".")
WholeParsed == ParseU32(AmountParts.left)
FractionParsed ==
    IF AmountParts.found THEN ParseU32(Padded(AmountParts.right)) ELSE Ok(U32(0))

\* C20: parse_dollars_to_cents never overflows: for every text whose whole
\* part is a valid u32 it returns an error or the exact whole * 100 +
\* fraction, never a value wrapped modulo 2^32 and never an abort.
NeverOverflows ==
    (pop = "dollars" /\ WholeParsed.kind = "ok") =>
        \/ pret.kind = "err"
        \/ /\ pret.kind = "ok"
           /\ FractionParsed.kind = "ok"
           /\ pret.val = NumPlus(NumTimes(WholeParsed.val, 100), FractionParsed.val)

-----------------------------------------------------------------------------
(* Properties of the command-line run *)

\* The strategy that produced the breakdown of the make_change_for call
\* that has just returned: none when the change was 0
ProducedBy ==
    IF mtx.change_cents = U32(0) THEN "shortcut" ELSE strat

\* C21: in verbose mode a printed line carries the "(random)" label exactly
\* when the Random strategy produced its breakdown; a line from Greedy or
\* from the zero-change shortcut is never labelled, whatever owed and
\* divisor are.
RandomLabelMatchesStrategy ==
    [][(rpc = "calling" /\ rpc' = "loop" /\ args.verbose) =>
          (stdout'[Len(stdout')].label = " (random)" <=> ProducedBy = "random")]_vars

\* The lines of the input file, the positions of the non-blank ones, what
\* parse_line makes of each, and the positions of the valid and of the
\* failing lines
RunLines == SplitLines(input)
RunPositions ==
    { i \in 1..Len(RunLines) :
        \E k \in 1..Len(RunLines[i]) : ~IsWhitespace(RunLines[i][k]) }
LineResult(i) == parse_line(RunLines[i], i, overflow_checks)
ValidPositions == { i \in RunPositions : LineResult(i).kind = "ok" }
FailingPositions == { i \in RunPositions : LineResult(i).kind = "err" }

\* The cents the entries of a printed breakdown amount to
RECURSIVE OutputCents(_)
OutputCents(out) ==
    IF out = <<>> THEN 0
    ELSE out[1].count * out[1].name[2] + OutputCents(Tail(out))

\* A printed line is the line of transaction tx: its amounts in verbose
\* mode, and "no change" or a breakdown of the transaction's change
OutputMatches(line, tx) ==
    LET shown == IF args.verbose THEN line.change ELSE line
    IN  /\ args.verbose =>
              /\ line.owed = format_amount(tx.owed_cents)
              /\ line.paid = format_amount(tx.paid_cents)
        /\ IF tx.change_cents = U32(0)
           THEN shown = <<"no change">>
           ELSE OutputCents(shown) = ToInt(tx.change_cents)

\* C22: the run processes every non-blank line in order: each valid line
\* gives one output line, in input order, whatever the lines around it did;
\* each failing line gives one error report; the exit status is 2 when a
\* line failed and 0 otherwise, and is set only after the last line.
RunProcessesEveryLine ==
    /\ exit_code # -1 => (rpc = "exited" /\ ri > Len(results))
    /\ rpc \in {"exited", "aborted"} =>
          /\ rpc = "exited"
          /\ ValidPositions \cup FailingPositions = RunPositions
          /\ Len(stdout) = Cardinality(ValidPositions)
          /\ Len(stderr) = Cardinality(FailingPositions)
          /\ \A i \in ValidPositions :
                OutputMatches(stdout[Rank(ValidPositions, i)], LineResult(i).tx)
          /\ \A i \in FailingPositions :
                stderr[Rank(FailingPositions, i)] = LineResult(i).error
          /\ exit_code = IF FailingPositions # {} THEN 2 ELSE 0

\* The dispatch rule says Random for the call's transaction and divisor
RuleSaysRandom == mdiv > 0 /\ ToInt(mtx.owed_cents) % mdiv = 0

\* C23: make_change_for leaves the caller's random source as it found it
\* when the change is 0 or the rule selects Greedy, and returns the empty
\* breakdown when the change is 0.  In a run the source moves only at the
\* start and inside Random-dispatched lines with change to make, so each
\* Random line starts from the seed's state or from where the Random line
\* before it left the source.
RandomSourceFrame ==
    /\ [](mpc = "returned" =>
            /\ mtx.change_cents = U32(0) => (mret = <<>> /\ rng = mrng)
            /\ ~RuleSaysRandom => rng = mrng)
    /\ [][rng' # rng =>
            \/ rpc \in {"idle", "exited", "aborted"}
            \/ /\ mpc = "strategy" /\ spc = "loop" /\ strat = "random"
               /\ RuleSaysRandom /\ mtx.change_cents # U32(0)]_vars
    /\ [](\A c \in calls :
            \/ c.rng0 = InitialRng(args.seed, 1)
            \/ c.rng0 = InitialRng(args.seed, 2)
            \/ \E d \in calls : d.rng1 = c.rng0 /\ d.rng1.pos > d.rng0.pos)

SourceFrameWitness ==
    /\ rpc = "exited" /\ run_no = 1 /\ Len(stdout) = 2 /\ ri = 3
    /\ results[1].kind = "ok" /\ results[1].tx.owed_cents = U32(100)
    /\ results[1].tx.change_cents # U32(0)
    /\ Cardinality(calls) = 1
    /\ \E c \in calls : c.rng0 = InitialRng(args.seed, 1) /\ c.rng1.pos >= 1

-----------------------------------------------------------------------------
(* Properties of the set of Random results *)

\* Every assignment of a count to each denomination of denoms, in their
\* order, whose values sum to c, written with the zero counts left out.
RECURSIVE ExactBreakdowns(_, _)
ExactBreakdowns(c, denoms) ==
    IF denoms = <<>> THEN (IF c = 0 THEN {<<>>} ELSE {})
    ELSE UNION { { IF k = 0 THEN b ELSE <<(<<denoms[1], k>>)>> \o b :
                     b \in ExactBreakdowns(c - k * denoms[1], Tail(denoms)) } :
                 k \in 0..(c \div denoms[1]) }

AllReturned == outcomes # {} /\ \A c \in outcomes : c.spc = "done"
ReturnedBreakdowns == { c.result : c \in outcomes }

\* C24: over all outcomes of its draws, the breakdowns
\* RandomStrategy::make_change can return for a target over a table ending
\* in 1 are exactly the exact breakdowns of the target over the table;
\* GreedyStrategy's breakdown is one of them, and a USD target of at least
\* 5 cents has more than one.
RandomReturnsEveryBreakdown ==
    AllReturned =>
        /\ ReturnedBreakdowns = ExactBreakdowns(target, table)
        /\ GreedyWalk(target, table, <<>>) \in ReturnedBreakdowns
        /\ (table = USD /\ target >= 5) => Cardinality(ReturnedBreakdowns) > 1

EveryBreakdownWitness ==
    /\ AllReturned
    /\ table = USD /\ target >= 25
    /\ Cardinality(ReturnedBreakdowns) >= 13
    /\ \E b \in ReturnedBreakdowns : b # GreedyWalk(target, table, <<>>)

====
